---- MODULE Spec2Model ----
(***************************************************************************)
(* Optimal meeting point in a grid (optimal_meeting_point.py).             *)
(*                                                                         *)
(* A caller holds a grid of integer markers (0 = empty land, 1 = house,    *)
(* anything else = other terrain) and calls one of three entry points:     *)
(*   "solve" : min_total_distance(grid)                                    *)
(*   "fast"  : _fast_total_distance(grid, houses, m, n, len(houses))       *)
(*   "bfs"   : _bfs_total_distance(grid, houses, m, n, len(houses))        *)
(* Rows and columns are numbered from 0 as in the source.  A cell is the   *)
(* pair <<i, j>>; a grid is a function from row index to a function from   *)
(* column index to marker, so [] is the empty function and [[]] is the     *)
(* one-row grid whose row is the empty function.                           *)
(***************************************************************************)
EXTENDS Integers, Sequences, FiniteSets, TLC

VARIABLES
    grid,           \* the list of lists handed to the call
    caller_grid,    \* the value the caller built before its first call
    entry,          \* which function the caller invoked
    pc,             \* position inside the running call
    m, n,           \* locals m, n
    total_houses,   \* local / parameter total_houses
    houses,         \* local / parameter houses: sequence of <<i, j>>
    cost_row,       \* fast path: cost_row list
    cost_col,       \* fast path: cost_col list
    dist,           \* traversal: dist[i][j]
    reach,          \* traversal: reach[i][j]
    visited_mark,   \* traversal: visited_mark[i][j]
    visit_id,       \* traversal: visit_id
    hi,             \* traversal: number of houses whose traversal is complete
    q,              \* traversal: the deque, a sequence of <<x, y, d>>
    result,         \* value returned by the call, <<>> while it is running
    ret_line,       \* source line of the return statement that was executed
    calls,          \* number of calls the caller has started
    returned        \* per entry point, the value its first completed call returned

vars == <<grid, caller_grid, entry, pc, m, n, total_houses, houses, cost_row,
          cost_col, dist, reach, visited_mark, visit_id, hi, q, result,
          ret_line, calls, returned>>

(***************************************************************************)
(* Bounds of the model.                                                    *)
(***************************************************************************)
MaxCells == 6          \* Spec: grids of at most this many cells
MaxBinCells == 9       \* SpecBin: 0/1 grids of at most this many cells
MaxCallCells == 4      \* SpecCalls: grids of at most this many cells
MaxCalls == 3          \* SpecCalls: calls made one after another

Markers == {-3, 0, 1, 2}    \* markers a caller may put in a cell
BinMarkers == {0, 1}
CallMarkers == {0, 1, 2}
Entries == {"solve", "fast", "bfs"}

Shapes(maxCells) ==
    {s \in (1..maxCells) \X (1..maxCells) : s[1] * s[2] <= maxCells}

GridsOf(markers, maxCells) ==
    UNION {[0..(s[1]-1) -> [0..(s[2]-1) -> markers]] : s \in Shapes(maxCells)}

\* [] ; [[]] ; [[], []] ; [[], [1]]
DegenerateGrids ==
    { <<>>,
      [i \in 0..0 |-> <<>>],
      [i \in 0..1 |-> <<>>],
      [i \in 0..1 |-> IF i = 0 THEN <<>> ELSE [j \in 0..0 |-> 1]] }

(***************************************************************************)
(* Python built-ins used by the source.                                    *)
(***************************************************************************)
PyLen(f) == Cardinality(DOMAIN f)

RECURSIVE SumSet(_, _)
SumSet(S, f) ==
    IF S = {} THEN 0
    ELSE LET x == CHOOSE y \in S : TRUE IN f[x] + SumSet(S \ {x}, f)

MinSet(S) == CHOOSE x \in S : \A y \in S : x <= y

Abs(x) == IF x < 0 THEN -x ELSE x

CellsOf(rows, cols) == (0..(rows-1)) \X (0..(cols-1))

At(g, c) == g[c[1]][c[2]]

\* [[0]*cols for _ in range(rows)]
ZeroField(rows, cols) == [c \in CellsOf(rows, cols) |-> 0]

(***************************************************************************)
(* min_total_distance, lines 32-50.                                        *)
(***************************************************************************)
\* not grid or not grid[0]
IsEmptyInput(g) == IF DOMAIN g = {} THEN TRUE ELSE DOMAIN g[0] = {}

\* sum(cell for row in grid for cell in row)
SumOfCells(g) ==
    LET cells == (DOMAIN g) \X (DOMAIN g[0])
    IN  SumSet(cells, [c \in cells |-> At(g, c)])

RECURSIVE HousesFrom(_, _, _, _)
HousesFrom(g, rows, cols, k) ==
    IF k >= rows * cols THEN <<>>
    ELSE LET c == <<k \div cols, k % cols>>
         IN  (IF At(g, c) = 1 THEN <<c>> ELSE <<>>) \o HousesFrom(g, rows, cols, k + 1)

\* [(i, j) for i in range(m) for j in range(n) if grid[i][j] == 1]
HouseList(g, rows, cols) == HousesFrom(g, rows, cols, 0)

\* the has_only_01 scan
HasOnly01(g, rows, cols) == \A c \in CellsOf(rows, cols) : At(g, c) \in {0, 1}

(***************************************************************************)
(* The separable path: lines 53-85 of min_total_distance and the same code *)
(* in _fast_total_distance, lines 93-119.                                  *)
(***************************************************************************)
\* row_count after "for i, j in houses: row_count[i] += 1"
RowCount(hs, rows) ==
    [i \in 0..(rows-1) |-> Cardinality({k \in 1..Len(hs) : hs[k][1] = i})]

\* col_count after "for i, j in houses: col_count[j] += 1"
ColCount(hs, cols) ==
    [j \in 0..(cols-1) |-> Cardinality({k \in 1..Len(hs) : hs[k][2] = j})]

\* sum(count[i]*i for i in range(len))
WeightedSum(count, len) == SumSet(0..(len-1), [i \in 0..(len-1) |-> count[i] * i])

\* the value of prefix after the loop body has run for index r
RECURSIVE PrefixAt(_, _)
PrefixAt(count, r) ==
    IF r = 0 THEN 0 ELSE PrefixAt(count, r - 1) + count[r - 1]

\* variant: the factor 2 of line 69 dropped
StepCostHalved(prev, prefix, total) == prev + (prefix - total)

\* cost[r] = cost[r-1] + (2*prefix - total)
StepCost(prev, prefix, total) == prev + (2 * prefix - total)

RECURSIVE CostAt(_, _, _, _)
CostAt(count, len, total, r) ==
    IF r = 0 THEN WeightedSum(count, len)
    ELSE StepCost(CostAt(count, len, total, r - 1), PrefixAt(count, r), total)

\* the finished cost_row / cost_col list
CostList(count, len, total) ==
    [r \in 0..(len-1) |-> CostAt(count, len, total, r)]

\* variant: the test of line 83 dropped, houses become candidates
CandidatesAnyCell(g, rows, cols) == CellsOf(rows, cols)

\* the cells the reduction loop looks at: grid[i][j] == 0
Candidates(g, rows, cols) == {c \in CellsOf(rows, cols) : At(g, c) = 0}

\* variant: 0 instead of -1 when no empty cell was seen
MinOverEmptyZeroStart(g, rows, cols, cr, cc) ==
    LET S == {cr[c[1]] + cc[c[2]] : c \in Candidates(g, rows, cols)}
    IN  IF S = {} THEN 0 ELSE MinSet(S)

\* min over empty cells of cost_row[i] + cost_col[j], -1 when min_cost stayed inf
MinOverEmpty(g, rows, cols, cr, cc) ==
    LET S == {cr[c[1]] + cc[c[2]] : c \in Candidates(g, rows, cols)}
    IN  IF S = {} THEN -1 ELSE MinSet(S)

\* _fast_total_distance(grid, houses, m, n, total_houses)
FastTotalDistance(g, hs, rows, cols, total) ==
    MinOverEmpty(g, rows, cols,
                 CostList(RowCount(hs, rows), rows, total),
                 CostList(ColCount(hs, cols), cols, total))

(***************************************************************************)
(* The traversal: _bfs_total_distance, lines 124-151.                      *)
(***************************************************************************)
\* directions = [(-1,0),(1,0),(0,-1),(0,1)]
Directions == << <<-1, 0>>, <<1, 0>>, <<0, -1>>, <<0, 1>> >>

\* 0<=nx<m and 0<=ny<n
InBounds(c, rows, cols) ==
    /\ 0 <= c[1] /\ c[1] < rows
    /\ 0 <= c[2] /\ c[2] < cols

\* the marker line 138 refuses to enter
ObstacleMarker == 2

\* grid[nx][ny] != 2
Passable(g, c) == At(g, c) # ObstacleMarker

\* the whole condition of line 138
MayEnter(g, rows, cols, vm, id, c) ==
    /\ InBounds(c, rows, cols)
    /\ vm[c] # id
    /\ Passable(g, c)

\* variant: line 139 dropped
MarkNever(vm, c, id) == vm

\* visited_mark[nx][ny] = visit_id
Mark(vm, c, id) == [vm EXCEPT ![c] = id]

\* variant: line 142 adds d instead of d+1
EnterOffByOne(st, g, id, c, d) ==
    [vm    |-> Mark(st.vm, c, id),
     dist  |-> IF At(g, c) = 0 THEN [st.dist EXCEPT ![c] = @ + d] ELSE st.dist,
     reach |-> IF At(g, c) = 0 THEN [st.reach EXCEPT ![c] = @ + 1] ELSE st.reach,
     q     |-> Append(st.q, <<c[1], c[2], d + 1>>)]

\* lines 139-144: mark the neighbour, accumulate on empty land, enqueue it;
\* st is the record of visited_mark, dist, reach and the deque
Enter(st, g, id, c, d) ==
    [vm    |-> Mark(st.vm, c, id),
     dist  |-> IF At(g, c) = 0 THEN [st.dist EXCEPT ![c] = @ + d + 1] ELSE st.dist,
     reach |-> IF At(g, c) = 0 THEN [st.reach EXCEPT ![c] = @ + 1] ELSE st.reach,
     q     |-> Append(st.q, <<c[1], c[2], d + 1>>)]

\* lines 135-144 for the directions k..4 of the dequeued element <<x, d>>
RECURSIVE VisitNeighbours(_, _, _, _, _, _, _, _)
VisitNeighbours(st, g, rows, cols, id, x, d, k) ==
    IF k > Len(Directions) THEN st
    ELSE LET c == <<x[1] + Directions[k][1], x[2] + Directions[k][2]>>
             st2 == IF MayEnter(g, rows, cols, st.vm, id, c)
                    THEN Enter(st, g, id, c, d)
                    ELSE st
         IN  VisitNeighbours(st2, g, rows, cols, id, x, d, k + 1)

\* the cells that pass the test of line 149
FullyReached(g, rows, cols, rch, total) ==
    {c \in CellsOf(rows, cols) : At(g, c) = 0 /\ rch[c] = total}

\* lines 146-151
MinOverReached(g, rows, cols, dst, rch, total) ==
    LET S == {dst[c] : c \in FullyReached(g, rows, cols, rch, total)}
    IN  IF S = {} THEN -1 ELSE MinSet(S)

(***************************************************************************)
(* The state machine.                                                      *)
(***************************************************************************)
NonDegenerate(g) == ~IsEmptyInput(g)

InitOver(grids, entries) ==
    /\ grid \in grids
    /\ caller_grid = grid
    /\ entry \in entries
    /\ entry \in {"fast", "bfs"} => NonDegenerate(grid)
    /\ entry = "fast" => HasOnly01(grid, PyLen(grid), PyLen(grid[0]))
    /\ pc = "start"
    /\ m = 0 /\ n = 0 /\ total_houses = 0 /\ houses = <<>>
    /\ cost_row = <<>> /\ cost_col = <<>>
    /\ dist = <<>> /\ reach = <<>> /\ visited_mark = <<>>
    /\ visit_id = 0 /\ hi = 0 /\ q = <<>>
    /\ result = <<>> /\ ret_line = 0
    /\ calls = 1
    /\ returned = [e \in Entries |-> <<>>]

Return(v, line) ==
    /\ result' = <<v>>
    /\ ret_line' = line
    /\ pc' = "done"
    /\ returned' = IF returned[entry] = <<>>
                   THEN [returned EXCEPT ![entry] = <<v>>]
                   ELSE returned

NoReturn == UNCHANGED <<result, ret_line, returned>>

\* min_total_distance lines 32-33: the empty-input check
RejectEmpty ==
    /\ pc = "start" /\ entry = "solve"
    /\ IsEmptyInput(grid)
    /\ Return(-1, 33)
    /\ UNCHANGED <<grid, caller_grid, entry, m, n, total_houses, houses, cost_row,
                   cost_col, dist, reach, visited_mark, visit_id, hi, q, calls>>

\* min_total_distance lines 34-37: m, n, total_houses and the zero-house check
CountHouses ==
    /\ pc = "start" /\ entry = "solve"
    /\ ~IsEmptyInput(grid)
    /\ m' = PyLen(grid)
    /\ n' = PyLen(grid[0])
    /\ total_houses' = SumOfCells(grid)
    /\ IF total_houses' = 0
       THEN Return(-1, 37)
       ELSE pc' = "classify" /\ NoReturn
    /\ UNCHANGED <<grid, caller_grid, entry, houses, cost_row, cost_col, dist,
                   reach, visited_mark, visit_id, hi, q, calls>>

\* min_total_distance lines 39-52 and 88: extract the houses, scan for a marker
\* outside {0,1}, choose the path
Classify ==
    /\ pc = "classify"
    /\ houses' = HouseList(grid, m, n)
    /\ pc' = IF HasOnly01(grid, m, n) THEN "fast" ELSE "bfs"
    /\ NoReturn
    /\ UNCHANGED <<grid, caller_grid, entry, m, n, total_houses, cost_row, cost_col,
                   dist, reach, visited_mark, visit_id, hi, q, calls>>

\* a direct call of an engine, as benchmarks_run.py makes it
EngineCall ==
    /\ pc = "start" /\ entry \in {"fast", "bfs"}
    /\ m' = PyLen(grid)
    /\ n' = PyLen(grid[0])
    /\ houses' = HouseList(grid, m', n')
    /\ total_houses' = Len(houses')
    /\ pc' = entry
    /\ NoReturn
    /\ UNCHANGED <<grid, caller_grid, entry, cost_row, cost_col, dist, reach,
                   visited_mark, visit_id, hi, q, calls>>

\* lines 53-77 (93-112): row_count, col_count, cost_row, cost_col
FastCosts ==
    /\ pc = "fast"
    /\ cost_row' = CostList(RowCount(houses, m), m, total_houses)
    /\ cost_col' = CostList(ColCount(houses, n), n, total_houses)
    /\ pc' = "reduce"
    /\ NoReturn
    /\ UNCHANGED <<grid, caller_grid, entry, m, n, total_houses, houses, dist,
                   reach, visited_mark, visit_id, hi, q, calls>>

\* lines 80-85 (114-119): the minimum over empty cells
FastReduce ==
    /\ pc = "reduce"
    /\ Return(MinOverEmpty(grid, m, n, cost_row, cost_col),
              IF entry = "solve" THEN 85 ELSE 119)
    /\ UNCHANGED <<grid, caller_grid, entry, m, n, total_houses, houses, cost_row,
                   cost_col, dist, reach, visited_mark, visit_id, hi, q, calls>>

\* variant: dist and reach kept from an earlier call instead of re-created
BfsInitStale ==
    /\ pc = "bfs"
    /\ dist' = IF DOMAIN dist = CellsOf(m, n) THEN dist ELSE ZeroField(m, n)
    /\ reach' = IF DOMAIN reach = CellsOf(m, n) THEN reach ELSE ZeroField(m, n)
    /\ visited_mark' = ZeroField(m, n)
    /\ visit_id' = 1
    /\ hi' = 0
    /\ q' = <<>>
    /\ pc' = "house"
    /\ NoReturn
    /\ UNCHANGED <<grid, caller_grid, entry, m, n, total_houses, houses, cost_row,
                   cost_col, calls>>

\* lines 124-128: dist, reach, visited_mark and visit_id are created
BfsInit ==
    /\ pc = "bfs"
    /\ dist' = ZeroField(m, n)
    /\ reach' = ZeroField(m, n)
    /\ visited_mark' = ZeroField(m, n)
    /\ visit_id' = 1
    /\ hi' = 0
    /\ q' = <<>>
    /\ pc' = "house"
    /\ NoReturn
    /\ UNCHANGED <<grid, caller_grid, entry, m, n, total_houses, houses, cost_row,
                   cost_col, calls>>

\* lines 129-132: the next house is put in a new deque and marked
HouseStart ==
    /\ pc = "house"
    /\ hi < Len(houses)
    /\ q' = << <<houses[hi + 1][1], houses[hi + 1][2], 0>> >>
    /\ visited_mark' = Mark(visited_mark, houses[hi + 1], visit_id)
    /\ pc' = "queue"
    /\ NoReturn
    /\ UNCHANGED <<grid, caller_grid, entry, m, n, total_houses, houses, cost_row,
                   cost_col, dist, reach, visit_id, hi, calls>>

\* lines 133-144: one iteration of "while q": popleft and the four directions
BfsStep ==
    /\ pc = "queue"
    /\ q # <<>>
    /\ LET e  == Head(q)
           st == VisitNeighbours([vm |-> visited_mark, dist |-> dist,
                                  reach |-> reach, q |-> Tail(q)],
                                 grid, m, n, visit_id, <<e[1], e[2]>>, e[3], 1)
       IN  /\ visited_mark' = st.vm
           /\ dist' = st.dist
           /\ reach' = st.reach
           /\ q' = st.q
    /\ NoReturn
    /\ UNCHANGED <<grid, caller_grid, entry, pc, m, n, total_houses, houses,
                   cost_row, cost_col, visit_id, hi, calls>>

\* line 145: the deque is empty, visit_id += 1, on to the next house
HouseEnd ==
    /\ pc = "queue"
    /\ q = <<>>
    /\ visit_id' = visit_id + 1
    /\ hi' = hi + 1
    /\ pc' = "house"
    /\ NoReturn
    /\ UNCHANGED <<grid, caller_grid, entry, m, n, total_houses, houses, cost_row,
                   cost_col, dist, reach, visited_mark, q, calls>>

\* lines 146-151: the minimum over the empty cells every house reached
BfsReduce ==
    /\ pc = "house"
    /\ hi = Len(houses)
    /\ Return(MinOverReached(grid, m, n, dist, reach, total_houses), 151)
    /\ UNCHANGED <<grid, caller_grid, entry, m, n, total_houses, houses, cost_row,
                   cost_col, dist, reach, visited_mark, visit_id, hi, q, calls>>

\* the caller calls again with the list it still holds; the finished call's
\* locals are garbage until the new call creates its own
CallAgain ==
    /\ pc = "done"
    /\ calls < MaxCalls
    /\ calls' = calls + 1
    /\ entry' \in Entries
    /\ entry' \in {"fast", "bfs"} => NonDegenerate(grid)
    /\ entry' = "fast" => HasOnly01(grid, PyLen(grid), PyLen(grid[0]))
    /\ pc' = "start"
    /\ result' = <<>>
    /\ ret_line' = 0
    /\ UNCHANGED <<grid, caller_grid, m, n, total_houses, houses, cost_row,
                   cost_col, dist, reach, visited_mark, visit_id, hi, q, returned>>

Traverse ==
    \/ BfsInit
    \/ HouseStart
    \/ BfsStep
    \/ HouseEnd
    \/ BfsReduce

Separable ==
    \/ FastCosts
    \/ FastReduce

\* one call of min_total_distance on any grid
Init == InitOver(GridsOf(Markers, MaxCells) \cup DegenerateGrids, {"solve"})

Next ==
    \/ RejectEmpty
    \/ CountHouses
    \/ Classify
    \/ Separable
    \/ Traverse

Spec == Init /\ [][Next]_vars

\* one direct call of _bfs_total_distance on any grid
InitEngine == InitOver(GridsOf(Markers, MaxCells), {"bfs"})

NextEngine ==
    \/ EngineCall
    \/ Traverse

SpecEngine == InitEngine /\ [][NextEngine]_vars

\* one call of any entry point on a 0/1 grid, larger shapes
InitBin == InitOver(GridsOf(BinMarkers, MaxBinCells), Entries)

NextBin ==
    \/ CountHouses
    \/ Classify
    \/ EngineCall
    \/ Separable
    \/ Traverse

SpecBin == InitBin /\ [][NextBin]_vars

\* several calls in a row on the same list
InitCalls == InitOver(GridsOf(CallMarkers, MaxCallCells) \cup DegenerateGrids, Entries)

NextCalls ==
    \/ RejectEmpty
    \/ CountHouses
    \/ Classify
    \/ EngineCall
    \/ Separable
    \/ Traverse
    \/ CallAgain

SpecCalls == InitCalls /\ [][NextCalls]_vars

(***************************************************************************)
(* Vocabulary of the properties, defined from the grid alone.              *)
(***************************************************************************)
HouseCells(g) == {c \in (DOMAIN g) \X (DOMAIN g[0]) : At(g, c) = 1}

EmptyCells(g) == {c \in (DOMAIN g) \X (DOMAIN g[0]) : At(g, c) = 0}

AllCells(g) == (DOMAIN g) \X (DOMAIN g[0])

Adjacent(a, b) == Abs(a[1] - b[1]) + Abs(a[2] - b[2]) = 1

Manhattan(a, b) == Abs(a[1] - b[1]) + Abs(a[2] - b[2])

\* sum over all houses of |hr - i| + |hc - j|
ManhattanSum(g, c) ==
    SumSet(HouseCells(g), [h \in HouseCells(g) |-> Manhattan(h, c)])

\* Breadth-first layers from a start cell through cells whose marker is not
\* in `blocked`: acc maps every cell to the length of a shortest such path,
\* -1 where there is none.
RECURSIVE Flood(_, _, _, _, _, _)
Flood(g, blocked, seen, frontier, k, acc) ==
    IF frontier = {} THEN acc
    ELSE LET acc2 == [c \in AllCells(g) |-> IF c \in frontier THEN k ELSE acc[c]]
             nxt  == {c \in AllCells(g) \ seen :
                         /\ At(g, c) \notin blocked
                         /\ \E b \in frontier : Adjacent(b, c)}
         IN  Flood(g, blocked, seen \cup nxt, nxt, k + 1, acc2)

\* (f @@ <<>> is f, tabulated once instead of recomputed at every use)
PathLens(g, blocked, h) ==
    Flood(g, blocked, {h}, {h}, 0, [c \in AllCells(g) |-> -1]) @@ <<>>

\* empty cells that every house reaches
MeetingCells(g, blocked) ==
    {c \in EmptyCells(g) :
        \A h \in HouseCells(g) : PathLens(g, blocked, h)[c] >= 0}

\* sum over all houses of the shortest path length to c
PathSum(g, blocked, c) ==
    SumSet(HouseCells(g), [h \in HouseCells(g) |-> PathLens(g, blocked, h)[c]])

MarkersOf(g) == {At(g, c) : c \in AllCells(g)}

Solved == pc = "done" /\ entry = "solve"

(***************************************************************************)
(* C1: on a 0/1 grid with at least one house and one empty cell,           *)
(* _bfs_total_distance(grid, houses, m, n, len(houses)) returns the same   *)
(* integer as _fast_total_distance on the same arguments.                  *)
(***************************************************************************)
C1_EnginesAgree ==
    (/\ pc = "done" /\ entry = "bfs"
     /\ MarkersOf(grid) \subseteq {0, 1}
     /\ HouseCells(grid) # {} /\ EmptyCells(grid) # {})
    => result = <<FastTotalDistance(grid, houses, m, n, Len(houses))>>

C1_Witness ==
    /\ pc = "done" /\ entry = "bfs"
    /\ MarkersOf(grid) \subseteq {0, 1}
    /\ m >= 2 /\ n >= 2
    /\ Cardinality(HouseCells(grid)) >= 3 /\ EmptyCells(grid) # {}
    /\ result = <<FastTotalDistance(grid, houses, m, n, Len(houses))>>
    /\ result[1] >= 4

(***************************************************************************)
(* C3: on a 0/1 grid with at least one house and one empty cell,           *)
(* cost_row[i] is the sum over houses of |hr - i|, cost_col[j] the sum of  *)
(* |hc - j|, and min_total_distance returns the minimum over empty cells   *)
(* only of the sum over houses of |hr - i| + |hc - j|.                     *)
(***************************************************************************)
C3_FastPathIsManhattanMin ==
    (/\ Solved
     /\ MarkersOf(grid) \subseteq {0, 1}
     /\ HouseCells(grid) # {} /\ EmptyCells(grid) # {})
    => /\ \A i \in DOMAIN grid :
            cost_row[i] = SumSet(HouseCells(grid),
                                 [h \in HouseCells(grid) |-> Abs(h[1] - i)])
       /\ \A j \in DOMAIN grid[0] :
            cost_col[j] = SumSet(HouseCells(grid),
                                 [h \in HouseCells(grid) |-> Abs(h[2] - j)])
       /\ result = <<MinSet({ManhattanSum(grid, c) : c \in EmptyCells(grid)})>>

\* a house sits where the cost is lowest, so the answer is above the
\* minimum over all cells
C3_Witness ==
    /\ Solved /\ ret_line = 85
    /\ m >= 2 /\ n >= 2
    /\ Cardinality(HouseCells(grid)) >= 2
    /\ EmptyCells(grid) # {}
    /\ result = <<MinSet({ManhattanSum(grid, c) : c \in EmptyCells(grid)})>>
    /\ \E h \in HouseCells(grid) : ManhattanSum(grid, h) < result[1]

(***************************************************************************)
(* C6: on a grid of at least 2 cells with exactly one house and otherwise  *)
(* empty cells, min_total_distance returns 1, and the cost is 1 exactly    *)
(* at the empty cells 4-adjacent to the house.                             *)
(***************************************************************************)
C6_SingleHouse ==
    (/\ Solved
     /\ MarkersOf(grid) \subseteq {0, 1}
     /\ Cardinality(HouseCells(grid)) = 1
     /\ Cardinality(AllCells(grid)) >= 2)
    => /\ result = <<1>>
       /\ \A c \in EmptyCells(grid) :
            (cost_row[c[1]] + cost_col[c[2]] = result[1])
                <=> (\E h \in HouseCells(grid) : Adjacent(h, c))

\* the house in the middle of a 3x3 grid: four adjacent cells
C6_Witness ==
    /\ Solved /\ result = <<1>>
    /\ Cardinality(HouseCells(grid)) = 1
    /\ \E h \in HouseCells(grid) :
         Cardinality({c \in EmptyCells(grid) : Adjacent(h, c)}) = 4

(***************************************************************************)
(* C4: min_total_distance returns -1 for [], for a grid whose first row    *)
(* is empty, for a grid with no house (all cells empty) and for a grid     *)
(* with no empty cell (all cells houses).                                  *)
(***************************************************************************)
C4_DegenerateInputs ==
    (/\ Solved
     /\ IF IsEmptyInput(grid) THEN TRUE
        ELSE \/ MarkersOf(grid) = {0}
             \/ MarkersOf(grid) = {1})
    => result = <<-1>>

\* the case that runs the whole separable path: every cell a house
C4_Witness ==
    /\ Solved /\ ret_line = 85
    /\ NonDegenerate(grid)
    /\ MarkersOf(grid) = {1}
    /\ Cardinality(AllCells(grid)) >= 4
    /\ result = <<-1>>

(***************************************************************************)
(* C8: in a call of min_total_distance on a non-degenerate grid, the       *)
(* total_houses that is tested and passed on is the number of cells with   *)
(* marker 1, and the call returns at the zero-house check only when the    *)
(* grid has no such cell.                                                  *)
(***************************************************************************)
C8_TotalHousesIsHouseCount ==
    (entry = "solve" /\ pc # "start" /\ NonDegenerate(grid))
    => /\ total_houses = Cardinality(HouseCells(grid))
       /\ ret_line = 37 => HouseCells(grid) = {}

(***************************************************************************)
(* C2: on a grid over {0,1,2} with an obstacle and a house, if some empty  *)
(* cell is reachable from every house through non-obstacle cells,          *)
(* min_total_distance returns the minimum over those cells of the sum of   *)
(* the shortest path lengths from the houses.                              *)
(***************************************************************************)
C2_ObstacleGridMinimum ==
    (/\ Solved
     /\ NonDegenerate(grid)
     /\ MarkersOf(grid) \subseteq {0, 1, 2}
     /\ 2 \in MarkersOf(grid)
     /\ HouseCells(grid) # {}
     /\ MeetingCells(grid, {ObstacleMarker}) # {})
    => result = <<MinSet({PathSum(grid, {ObstacleMarker}, c) :
                            c \in MeetingCells(grid, {ObstacleMarker})})>>

(***************************************************************************)
(* C5: on a grid with at least one house in which no empty cell is         *)
(* reachable from every house (only the marker 2 taken as blocking, the    *)
(* most permissive reading), min_total_distance returns -1.                *)
(***************************************************************************)
C5_NoMeetingCell ==
    (/\ Solved
     /\ NonDegenerate(grid)
     /\ HouseCells(grid) # {}
     /\ MeetingCells(grid, {ObstacleMarker}) = {})
    => result = <<-1>>

(***************************************************************************)
(* C9: during a traversal, every cell that is marked visited or waits in   *)
(* the deque holds marker 0 or 1.                                          *)
(***************************************************************************)
C9_OnlyLandAndHousesEntered ==
    pc = "queue"
    => /\ \A k \in 1..Len(q) : At(grid, <<q[k][1], q[k][2]>>) \in {0, 1}
       /\ \A c \in AllCells(grid) :
            visited_mark[c] = visit_id => At(grid, c) \in {0, 1}

(***************************************************************************)
(* C10: within one house's traversal no cell is in the deque twice, every  *)
(* deque entry and every marked cell carries the length of a shortest      *)
(* path from that house through the cells line 138 lets the traversal      *)
(* enter; after k houses reach[c] of an empty cell c is the number of      *)
(* those k houses that reach c (at most k), dist[c] the sum of their       *)
(* shortest path lengths, and both stay 0 on every non-empty cell.         *)
(***************************************************************************)
Traversing == pc \in {"house", "queue"}

\* shortest path lengths from every house of the list, in list order
HouseLens ==
    [k \in 1..Len(houses) |-> PathLens(grid, {ObstacleMarker}, houses[k])] @@ <<>>

\* cells this traversal has marked so far (none between two traversals)
MarkedNow == IF pc = "queue"
             THEN {c \in AllCells(grid) : visited_mark[c] = visit_id}
             ELSE {}

C7_PureFunctionOfGrid ==
    /\ grid = caller_grid
    /\ Solved => result = returned["solve"]

\* a third call that ran the traversal after two calls that ran it too
C7_Witness ==
    /\ Solved /\ calls = MaxCalls
    /\ ret_line = 151
    /\ visit_id >= 2
    /\ result = returned["solve"]
    /\ returned["bfs"] # <<>>
    /\ returned["bfs"] # returned["solve"]

====
